---------------------------- MODULE Spec2Model ----------------------------
(***************************************************************************)
(* Model of the wastewater no-swim-zone pipeline (src/main.py).            *)
(*                                                                         *)
(* Geometry is modelled on a one-dimensional coast: a geometry is a set of *)
(* integer positions tagged with its coordinate reference system.  In      *)
(* EPSG:4326 a position is a cell index, in EPSG:2100 it is a distance in  *)
(* metres; one cell is CellMeters wide.  A polygon is a maximal run of     *)
(* consecutive cells, a geometry with several runs is a MultiPolygon.      *)
(*                                                                         *)
(* Python None is the empty tuple, a present JSON value v is <<v>>.        *)
(***************************************************************************)
EXTENDS Integers, Sequences, FiniteSets, TLC

\* ------------------------------------------------------------------------
\* Bounds of the model
\* ------------------------------------------------------------------------
MaxFacilities == 2
MaxPlants == 1
NumRuns == 2
MaxCell == 4

\* ------------------------------------------------------------------------
\* Program constants
\* ------------------------------------------------------------------------
BUFFER_DISTANCE_METERS == 200
WGS84_CRS == "EPSG:4326"
GREEK_GRID_CRS == "EPSG:2100"

\* Width of one geographic cell in metres (scale of the model's projection).
CellMeters == BUFFER_DISTANCE_METERS

None == <<>>
Some(v) == <<v>>

\* A JSON null stored under a key that is present (dict.get then returns
\* Python None instead of its default); a pair, unlike any Some(v).
Null == <<"null", "null">>

SeqUpTo(S, n) == UNION {[1..k -> S] : k \in 0..n}

\* ------------------------------------------------------------------------
\* Geometry (shapely / pyproj)
\* ------------------------------------------------------------------------
Geom(crs, pts) == [crs |-> crs, pts |-> pts]

is_empty(g) == g.pts = {}

\* Positions a geometry can occupy in each reference system.
Lattice(crs) ==
    IF crs = GREEK_GRID_CRS
    THEN {k * CellMeters : k \in (0 - 1)..(MaxCell + 1)}
    ELSE (0 - 1)..(MaxCell + 1)

\* transform(transformer_to_greek_grid, g): degrees -> metres, every vertex.
transformer_to_greek_grid(g) ==
    Geom(GREEK_GRID_CRS, {p * CellMeters : p \in g.pts})

\* transform(transformer_to_wgs84, g): metres -> degrees, every vertex.
transformer_to_wgs84(g) ==
    Geom(WGS84_CRS, {p \div CellMeters : p \in g.pts})

\* g.buffer(d): everything within distance d, in the units of g's own CRS.
buffer(g, d) ==
    Geom(g.crs, {x \in Lattice(g.crs) :
                    \E p \in g.pts : (x - p <= d) /\ (p - x <= d)})

\* The operands of the difference exchanged.
difference_swapped(a, b) == Geom(a.crs, b.pts \ a.pts)

\* a.difference(b)
difference(a, b) == Geom(a.crs, a.pts \ b.pts)

\* shape(f['geometry']) of a region feature; valid is FALSE for a geometry
\* whose topology GEOS cannot unify.
RegionGeom(pts, valid) == [crs |-> WGS84_CRS, pts |-> pts, valid |-> valid]

\* Only the first geometry of the list makes the union.
cascaded_union_first(geometries) ==
    [ok |-> \A i \in DOMAIN geometries : geometries[i].valid,
     geom |-> Geom(WGS84_CRS, UNION {geometries[i].pts : i \in DOMAIN geometries \cap {1}})]

\* cascaded_union(geometries): raises on a topologically invalid member.
cascaded_union(geometries) ==
    [ok |-> \A i \in DOMAIN geometries : geometries[i].valid,
     geom |-> Geom(WGS84_CRS, UNION {geometries[i].pts : i \in DOMAIN geometries})]

\* Point(longitude, latitude): raises unless both are numbers.
IsNumber(v) == Len(v) = 1
Point(longitude, latitude) ==
    IF IsNumber(longitude) /\ IsNumber(latitude)
    THEN [ok |-> TRUE, geom |-> Geom(WGS84_CRS, {longitude[1]})]
    ELSE [ok |-> FALSE, geom |-> Geom(WGS84_CRS, {})]

\* wkt.loads(text): raises on garbage, "POINT EMPTY" parses to an empty point.
wkt_loads(text) ==
    IF text[1] = "POINT" THEN [ok |-> TRUE, geom |-> Geom(WGS84_CRS, {text[2]})]
    ELSE IF text[1] = "POINT EMPTY" THEN [ok |-> TRUE, geom |-> Geom(WGS84_CRS, {})]
    ELSE [ok |-> FALSE, geom |-> Geom(WGS84_CRS, {})]

\* Maximal runs of consecutive cells of a set, as <<lo, hi>> rings, in order.
RunStarts(S) == {c \in S : (c - 1) \notin S}
RunEnd(S, lo) == CHOOSE h \in S : /\ h >= lo
                                  /\ \A x \in lo..h : x \in S
                                  /\ (h + 1) \notin S
RECURSIVE SortedSeq(_)
SortedSeq(S) ==
    IF S = {} THEN <<>>
    ELSE LET m == CHOOSE x \in S : \A y \in S : x <= y
         IN <<m>> \o SortedSeq(S \ {m})
Parts(S) ==
    LET starts == SortedSeq(RunStarts(S))
    IN [i \in DOMAIN starts |-> <<starts[i], RunEnd(S, starts[i])>>]

\* mapping(geom): the GeoJSON geometry.  coordinates is kept as a sequence
\* of polygons, each a sequence of rings (outer ring first); a Polygon has
\* exactly one entry, which is what GeoJSON calls its coordinates.
mapping(g) ==
    LET parts == Parts(g.pts)
    IN [type |-> IF Len(parts) = 1 THEN "Polygon" ELSE "MultiPolygon",
        coordinates |-> [i \in DOMAIN parts |-> <<parts[i]>>]]


\* ------------------------------------------------------------------------
\* Facility records and calculate_new_zones
\* ------------------------------------------------------------------------
\* A facility record of the upstream list.  kind "flat": the record itself
\* is the mapping of fields; "nested": the fields are under 'properties';
\* "bad": the record (or its 'properties') is not a mapping.  A field holds
\* None when the key is absent or null.  A coordinate holding a JSON array
\* (a 2-tuple here) is not a number.  is_compliant may also hold Null.
Props(code, wkt, lon, lat, is_compliant) ==
    [code |-> code, name |-> code, receiverLocation |-> wkt,
     longitude |-> lon, latitude |-> lat,
     is_compliant |-> is_compliant, compliance |-> None]
Facility(kind, props) == [kind |-> kind, props |-> props]

\* props.get(key, default) on a mapping whose absent keys hold None.
GetOr(value, default) == IF value = None THEN default ELSE value

\* Python truthiness of receiverLocation: None and "" are falsy.
Truthy(text) == text # None /\ text # <<"">>

PlantResult(features, outcome, source, steps) ==
    [features |-> features, outcome |-> outcome, source |-> source,
     steps |-> steps]

\* One geometric operation: its name, the reference system of the geometry
\* it is applied to and that of the geometry it yields.
Step(op, from, to) == [op |-> op, from |-> from, to |-> to]

\* The buffer is taken around the geographic point, in degrees.
danger_zone_steps_degrees(point_wgs84, unified_perifereies) ==
    LET buffered_point_wgs84 == buffer(point_wgs84, BUFFER_DISTANCE_METERS)
        danger_zone == difference(buffered_point_wgs84, unified_perifereies)
    IN [danger_zone |-> danger_zone,
        steps |-> <<Step("buffer", point_wgs84.crs, buffered_point_wgs84.crs),
                    Step("difference", buffered_point_wgs84.crs, danger_zone.crs)>>]

\* Lines 128-138: project, buffer, project back, subtract the land.
danger_zone_steps(point_wgs84, unified_perifereies) ==
    LET point_greek_grid == transformer_to_greek_grid(point_wgs84)
        buffered_point_greek_grid == buffer(point_greek_grid, BUFFER_DISTANCE_METERS)
        buffered_point_wgs84 == transformer_to_wgs84(buffered_point_greek_grid)
        danger_zone == difference(buffered_point_wgs84, unified_perifereies)
    IN [danger_zone |-> danger_zone,
        steps |-> <<Step("toMetric", point_wgs84.crs, point_greek_grid.crs),
                    Step("buffer", point_greek_grid.crs, buffered_point_greek_grid.crs),
                    Step("toGeographic", buffered_point_greek_grid.crs,
                         buffered_point_wgs84.crs),
                    Step("difference", buffered_point_wgs84.crs, danger_zone.crs)>>]

\* One iteration of the per-facility loop.  outcome is the branch taken:
\* "error" (except clause), "missing" (skip for missing coordinates),
\* "empty" (difference empty, nothing appended), "emitted".
plant_feature_step(plant_feature, unified_perifereies) ==
    IF plant_feature.kind = "bad"
    THEN PlantResult(<<>>, "error", "none", <<>>)
    ELSE
    LET props == plant_feature.props
        metadata == [code |-> props.code, name |-> props.name,
                     latitude |-> props.latitude, longitude |-> props.longitude]
        receiver_location_wkt == props.receiverLocation
        longitude == props.longitude
        latitude == props.latitude
        parsed == IF Truthy(receiver_location_wkt)
                  THEN wkt_loads(receiver_location_wkt)
                  ELSE [ok |-> FALSE, geom |-> Geom(WGS84_CRS, {})]
        from_wkt == Truthy(receiver_location_wkt) /\ parsed.ok
        use_lonlat == ~from_wkt /\ longitude # None /\ latitude # None
        made == IF use_lonlat THEN Point(longitude, latitude) ELSE parsed
        source == IF from_wkt THEN "wkt" ELSE IF use_lonlat THEN "lonlat" ELSE "none"
    IN  IF use_lonlat /\ ~made.ok
        THEN PlantResult(<<>>, "error", source, <<>>)
        ELSE IF (~from_wkt /\ ~use_lonlat) \/ is_empty(made.geom)
        THEN PlantResult(<<>>, "missing", source, <<>>)
        ELSE
        LET point_wgs84 == made.geom
            zone == danger_zone_steps(point_wgs84, unified_perifereies)
            danger_zone == zone.danger_zone
            steps == <<Step("resolve", source, point_wgs84.crs)>> \o zone.steps
            kml_properties ==
                [location |-> metadata.name,
                 Column1_compliance |-> GetOr(props.is_compliant, Some(TRUE)),
                 code |-> metadata.code, name |-> metadata.name,
                 latitude |-> metadata.latitude, longitude |-> metadata.longitude]
        IN  IF ~is_empty(danger_zone)
            THEN PlantResult(<<[type |-> "Feature",
                               geometry |-> mapping(danger_zone),
                               properties |-> kml_properties]>>,
                             "emitted", source, steps)
            ELSE PlantResult(<<>>, "empty", source, steps)

\* The fetched payload: kind "list" (a JSON list of records), "dict" (a
\* mapping with a 'features' list) or "other" (anything else).  key_order
\* is the order in which the source wrote the keys of its objects.
Payload(kind, features, key_order) ==
    [kind |-> kind, features |-> features, key_order |-> key_order]

RECURSIVE plant_loop(_, _)
plant_loop(features_to_process, unified_perifereies) ==
    IF features_to_process = <<>> THEN <<>>
    ELSE plant_feature_step(Head(features_to_process), unified_perifereies).features
         \o plant_loop(Tail(features_to_process), unified_perifereies)

\* Without the guard on an empty region list: the union of nothing is the
\* empty geometry and every difference is the whole buffer.
calculate_new_zones_unguarded(perifereies_geometries, wastewater_data) ==
    LET unified == cascaded_union(perifereies_geometries)
    IN IF ~unified.ok
       THEN [ok |-> FALSE, features |-> <<>>]
       ELSE IF wastewater_data.kind \in {"dict", "list"}
       THEN [ok |-> TRUE,
             features |-> plant_loop(wastewater_data.features, unified.geom)]
       ELSE [ok |-> TRUE, features |-> <<>>]

\* calculate_new_zones: ok is FALSE when the call raises.
calculate_new_zones(perifereies_geometries, wastewater_data) ==
    IF perifereies_geometries = <<>>
    THEN [ok |-> TRUE, features |-> <<>>]
    ELSE LET unified == cascaded_union(perifereies_geometries)
         IN IF ~unified.ok
            THEN [ok |-> FALSE, features |-> <<>>]
            ELSE IF wastewater_data.kind \in {"dict", "list"}
            THEN [ok |-> TRUE,
                  features |-> plant_loop(wastewater_data.features, unified.geom)]
            ELSE [ok |-> TRUE, features |-> <<>>]

\* ------------------------------------------------------------------------
\* geojson_to_kml
\* ------------------------------------------------------------------------
PropGet(properties, key, default) ==
    IF key \in DOMAIN properties THEN properties[key] ELSE default

Placemark(name, part, color, compliance_text, outerboundaryis) ==
    [name |-> name, part |-> part, color |-> color,
     compliance_text |-> compliance_text, outerboundaryis |-> outerboundaryis,
     innerboundaryis |-> <<>>]

\* Only the first polygon of a MultiPolygon is drawn, under the bare name.
feature_to_kml_firstpart(feature) ==
    LET geometry == feature.geometry
        properties == feature.properties
        location == PropGet(properties, "location", "Unknown Location")
        compliance == PropGet(properties, "Column1_compliance", None)
        text == IF compliance = Some(FALSE) THEN "NON-COMPLIANT" ELSE "Compliant"
        color == IF compliance = Some(FALSE) THEN "red" ELSE "blue_alpha150"
        coordinates == geometry.coordinates
    IN  IF geometry.type \in {"Polygon", "MultiPolygon"}
        THEN <<Placemark(location, 0, color, text, coordinates[1][1])>>
        ELSE <<>>

\* Every ring after the first is drawn as an inner boundary of its shape.
feature_to_kml_withholes(feature) ==
    LET geometry == feature.geometry
        properties == feature.properties
        location == PropGet(properties, "location", "Unknown Location")
        compliance == PropGet(properties, "Column1_compliance", None)
        text == IF compliance = Some(FALSE) THEN "NON-COMPLIANT" ELSE "Compliant"
        color == IF compliance = Some(FALSE) THEN "red" ELSE "blue_alpha150"
        coordinates == geometry.coordinates
    IN  IF geometry.type = "Polygon"
        THEN <<[Placemark(location, 0, color, text, coordinates[1][1])
                  EXCEPT !.innerboundaryis = Tail(coordinates[1])]>>
        ELSE IF geometry.type = "MultiPolygon"
        THEN [i \in DOMAIN coordinates |->
                 [Placemark(location, i, color, text, coordinates[i][1])
                    EXCEPT !.innerboundaryis = Tail(coordinates[i])]]
        ELSE <<>>

\* The shapes of one feature.  part is 0 for an unsuffixed name and i for
\* the name "<location> Part i".  Only the outer boundary of a shape is
\* ever assigned; its inner boundaries stay as simplekml creates them, empty.
feature_to_kml(feature) ==
    LET geometry == feature.geometry
        properties == feature.properties
        location == PropGet(properties, "location", "Unknown Location")
        compliance == PropGet(properties, "Column1_compliance", None)
        text == IF compliance = Some(FALSE) THEN "NON-COMPLIANT" ELSE "Compliant"
        color == IF compliance = Some(FALSE) THEN "red" ELSE "blue_alpha150"
        coordinates == geometry.coordinates
    IN  IF geometry.type = "Polygon"
        THEN <<Placemark(location, 0, color, text, coordinates[1][1])>>
        ELSE IF geometry.type = "MultiPolygon"
        THEN [i \in DOMAIN coordinates |->
                 Placemark(location, i, color, text, coordinates[i][1])]
        ELSE <<>>

RECURSIVE kml_of_features(_)
kml_of_features(features) ==
    IF features = <<>> THEN <<>>
    ELSE feature_to_kml(Head(features)) \o kml_of_features(Tail(features))

geojson_to_kml(geojson_data) == kml_of_features(geojson_data.features)

\* ------------------------------------------------------------------------
\* Change detection
\* ------------------------------------------------------------------------
\* json.dumps without sort_keys: the source's key order reaches the digest.
json_dumps_unsorted(wastewater_data) ==
    Payload(wastewater_data.kind, wastewater_data.features,
            wastewater_data.key_order)

\* json.dumps(data, sort_keys=True): the keys of every object are written
\* in sorted order (order 0) whatever order the source used; the order of
\* the records of a list is kept.
json_dumps_sorted(wastewater_data) ==
    Payload(wastewater_data.kind, wastewater_data.features, 0)

\* hashlib.sha256(...).hexdigest(): distinct strings get distinct digests.
sha256(text) == [sha256 |-> text]

\* ------------------------------------------------------------------------
\* Inputs
\* ------------------------------------------------------------------------
Runs == 1..NumRuns
KeyOrders == {0, 1}

\* Region datasets (perifereiesWGS84.geojson): no features, a mainland made
\* of two overlapping regions, an islet, and a dataset holding a geometry
\* that cannot be unified.
RegionDatasets ==
    { <<>>,
      <<RegionGeom({2, 3}, TRUE), RegionGeom({3, 4}, TRUE)>>,
      <<RegionGeom({1}, TRUE)>>,
      <<RegionGeom({2, 3}, FALSE)>> }

\* Facilities of the payloads fetched by check_for_changes.
CoastalPlant == Facility("flat", Props("A", <<"POINT", 1>>, None, None, None))
SeaPlant == Facility("nested", Props("B", None, Some(0), Some(0), Some(FALSE)))
PlantPool == {CoastalPlant, SeaPlant}

RunPayloads ==
    {Payload("list", fs, k) : fs \in SeqUpTo(PlantPool, MaxPlants) \ {<<>>},
                              k \in KeyOrders}
    \cup {Payload("list", <<>>, 0), Payload("other", <<>>, 0)}

\* ------------------------------------------------------------------------
\* State
\* ------------------------------------------------------------------------
VARIABLES
    hashBlob,      \* LAST_HASH_FILE_PATH in GCS: None or Some(digest)
    geojsonBlob,   \* OUTPUT_GEOJSON_PATH in GCS: None or Some(collection)
    regionsBlob,   \* PERIFEREIES_GEOJSON_PATH in GCS (read-only)
    drive,         \* files of DRIVE_FOLDER_ID, in listing order
    run,           \* run[r]: the locals of invocation r of check_for_changes
    prev,          \* summary of the last invocation that returned
    calc,          \* one call of calculate_new_zones, stepped per facility
    kml,           \* one call of geojson_to_kml, stepped per feature
    dig,           \* the digests of two payloads fetched one after the other
    qry            \* one containment query, stepped per feature scanned

vars == <<hashBlob, geojsonBlob, regionsBlob, drive, run, prev, calc, kml, dig, qry>>

KML_FILENAME == "wastewater_no_swim_zones.kml"

Resp(msg, detail, status) == [msg |-> msg, detail |-> detail, status |-> status]
NoResp == Resp("", "", 0)
Unhandled == Resp("unhandled exception", "", 500)

NoAfter == [same |-> FALSE, committed |-> FALSE,
            publish_failed |-> FALSE, start_equal |-> FALSE]
NoPrev == [content |-> None, committed |-> FALSE,
           publish_failed |-> FALSE, start_equal |-> FALSE]

IdleRun ==
    [pc |-> "idle", wastewater_data |-> None, current_hash |-> None,
     gate |-> "", path |-> "", perifereies_geometries |-> <<>>,
     new_zones_features |-> <<>>, feature_count |-> 0, kml_content |-> <<>>,
     existing_files |-> <<>>, action |-> "", file |-> None,
     drive_result |-> None, response |-> NoResp,
     ops |-> {}, wrote |-> {}, raised |-> "", start_hash |-> None,
     after |-> NoAfter]

CalcOff ==
    [pc |-> "off", perifereies_geometries |-> <<>>,
     wastewater_data |-> Payload("other", <<>>, 0), unified |-> Geom(WGS84_CRS, {}),
     i |-> 0, no_swim_zones_with_metadata |-> <<>>, log |-> <<>>]

KmlOff ==
    [pc |-> "off", geojson_data |-> [type |-> "FeatureCollection", features |-> <<>>],
     i |-> 0, placemarks |-> <<>>, log |-> <<>>]

QryOff ==
    [pc |-> "off", collection |-> <<>>, coordinate |-> 0, i |-> 0, result |-> None]

DigOff ==
    [pc |-> "off", first |-> Payload("other", <<>>, 0),
     second |-> Payload("other", <<>>, 0),
     last_hash |-> None, current_hash |-> None, gate |-> ""]

\* The folder starts with one file of the KML's name that a user has moved
\* to the trash; hash and primary artifact do not exist yet.
Init ==
    /\ hashBlob = None
    /\ geojsonBlob = None
    /\ regionsBlob \in RegionDatasets
    /\ drive = <<[id |-> 1, name |-> KML_FILENAME, content |-> <<>>,
                   trashed |-> TRUE, public |-> FALSE]>>
    /\ run = [r \in Runs |-> IdleRun]
    /\ prev = NoPrev
    /\ calc = CalcOff
    /\ kml = KmlOff
    /\ dig = DigOff
    /\ qry = QryOff

\* ------------------------------------------------------------------------
\* check_for_changes
\* ------------------------------------------------------------------------
Upd(r, rec) == run' = [run EXCEPT ![r] = rec]
Issue(rec, op) == [rec EXCEPT !.ops = @ \cup {op}]
Done(rec, response) == [rec EXCEPT !.pc = "done", !.response = response]
Raise(rec, op) == [rec EXCEPT !.raised = op]
Wrote(rec, store) == [rec EXCEPT !.wrote = @ \cup {store}]

\* The logical content of a payload: what the upstream said, whatever the
\* order in which it wrote the keys.
Content(p) == [kind |-> p.kind, features |-> p.features]

\* Part 1, lines 363-368: the fetch succeeded and the digest is computed.
\* Invocations do not overlap here, so a new one takes the lowest instance.
Fetch(r) ==
    /\ \A q \in Runs : run[q].pc = "idle" /\ r <= q
    /\ \E p \in RunPayloads :
         LET h == Some(sha256(json_dumps_sorted(p)))
             same == prev.content = Some(Content(p))
         IN Upd(r, [run[r] EXCEPT
                      !.pc = "hash_check",
                      !.wastewater_data = Some(p),
                      !.current_hash = h,
                      !.start_hash = hashBlob,
                      !.after = IF same
                                THEN [same |-> TRUE, committed |-> prev.committed,
                                      publish_failed |-> prev.publish_failed,
                                      start_equal |-> prev.start_equal]
                                ELSE NoAfter])
    /\ prev' = NoPrev
    /\ UNCHANGED <<hashBlob, geojsonBlob, regionsBlob, drive, calc, kml, dig, qry>>

\* The except clause logs the failure but does not return.
FetchFail_fallthrough(r) ==
    /\ \A q \in Runs : run[q].pc = "idle" /\ r <= q
    /\ Upd(r, [Raise(run[r], "fetch") EXCEPT
                 !.pc = "hash_check",
                 !.wastewater_data = Some(Payload("other", <<>>, 0)),
                 !.current_hash = Some(sha256(Payload("other", <<>>, 0)))])
    /\ prev' = NoPrev
    /\ UNCHANGED <<hashBlob, geojsonBlob, regionsBlob, drive, calc, kml, dig, qry>>

\* Lines 369-371: requests.get / raise_for_status / response.json raised a
\* RequestException.
FetchFail(r) ==
    /\ \A q \in Runs : run[q].pc = "idle" /\ r <= q
    /\ Upd(r, Done(Raise(run[r], "fetch"), Resp("Failed to fetch data.", "", 500)))
    /\ prev' = NoPrev
    /\ UNCHANGED <<hashBlob, geojsonBlob, regionsBlob, drive, calc, kml, dig, qry>>

\* The unchanged branch returns at once, without the sync.
HashCheck_nosync(r) ==
    /\ run[r].pc = "hash_check"
    /\ LET rec == Issue(run[r], "hash_read")
       IN \/ Upd(r, [Raise(rec, "hash_read") EXCEPT !.gate = "error", !.pc = "load_regions"])
          \/ /\ hashBlob = None
             /\ Upd(r, [rec EXCEPT !.gate = "absent", !.pc = "load_regions"])
          \/ /\ hashBlob # None
             /\ IF run[r].current_hash = hashBlob
                THEN Upd(r, Done([rec EXCEPT !.gate = "equal", !.path = "skip"],
                                 Resp("No changes detected.", "", 200)))
                ELSE Upd(r, [rec EXCEPT !.gate = "differ", !.pc = "load_regions"])
    /\ UNCHANGED <<hashBlob, geojsonBlob, regionsBlob, drive, prev, calc, kml, dig, qry>>

\* The hash gate with a failed read taken for "no changes".
HashCheck_errskip(r) ==
    /\ run[r].pc = "hash_check"
    /\ LET rec == Issue(run[r], "hash_read")
       IN \/ Upd(r, [Raise(rec, "hash_read") EXCEPT !.gate = "error", !.path = "skip",
                                                   !.pc = "sync_download"])
          \/ /\ hashBlob = None
             /\ Upd(r, [rec EXCEPT !.gate = "absent", !.pc = "load_regions"])
          \/ /\ hashBlob # None
             /\ IF run[r].current_hash = hashBlob
                THEN Upd(r, [rec EXCEPT !.gate = "equal", !.path = "skip",
                                        !.pc = "sync_download"])
                ELSE Upd(r, [rec EXCEPT !.gate = "differ", !.pc = "load_regions"])
    /\ UNCHANGED <<hashBlob, geojsonBlob, regionsBlob, drive, prev, calc, kml, dig, qry>>

\* Lines 373-388: the hash gate.
HashCheck(r) ==
    /\ run[r].pc = "hash_check"
    /\ LET rec == Issue(run[r], "hash_read")
       IN \/ \* exists() or download_as_text() raised
             Upd(r, [Raise(rec, "hash_read") EXCEPT !.gate = "error", !.pc = "load_regions"])
          \/ /\ hashBlob = None
             /\ Upd(r, [rec EXCEPT !.gate = "absent", !.pc = "load_regions"])
          \/ /\ hashBlob # None
             /\ IF run[r].current_hash = hashBlob
                THEN Upd(r, [rec EXCEPT !.gate = "equal", !.path = "skip",
                                        !.pc = "sync_download"])
                ELSE Upd(r, [rec EXCEPT !.gate = "differ", !.pc = "load_regions"])
    /\ UNCHANGED <<hashBlob, geojsonBlob, regionsBlob, drive, prev, calc, kml, dig, qry>>

\* Lines 392-394 with load_perifereies_data (54-68).
LoadRegions(r) ==
    /\ run[r].pc = "load_regions"
    /\ LET rec == Issue(run[r], "regions_read")
       IN \/ \* blob unavailable or unparseable: load_perifereies_data returns None
             Upd(r, Done(Raise(rec, "regions_read"),
                         Resp("Failed to load perifereies data.", "", 500)))
          \/ Upd(r, [rec EXCEPT !.perifereies_geometries = regionsBlob,
                                !.pc = "calculate"])
    /\ UNCHANGED <<hashBlob, geojsonBlob, regionsBlob, drive, prev, calc, kml, dig, qry>>

\* Lines 396-398: the call of calculate_new_zones and the branch on its result.
Calculate(r) ==
    /\ run[r].pc = "calculate"
    /\ LET rec == Issue(run[r], "calculate")
           res == calculate_new_zones(run[r].perifereies_geometries,
                                      run[r].wastewater_data[1])
       IN IF ~res.ok
          THEN Upd(r, Done(Raise(rec, "unify"), Unhandled))
          ELSE Upd(r, [rec EXCEPT !.new_zones_features = res.features,
                                  !.pc = IF res.features = <<>>
                                         THEN "commit_empty" ELSE "save_geojson"])
    /\ UNCHANGED <<hashBlob, geojsonBlob, regionsBlob, drive, prev, calc, kml, dig, qry>>

\* Lines 398-402: no zones; the hash is written outside any try block.
CommitEmpty(r) ==
    /\ run[r].pc = "commit_empty"
    /\ LET rec == Issue(run[r], "hash_write")
       IN \/ /\ hashBlob' = run[r].current_hash
             /\ Upd(r, Done(Wrote(rec, "hash"),
                            Resp("Analysis complete. No zones saved.", "", 200)))
          \/ /\ Upd(r, Done(Raise(rec, "hash_write"), Unhandled))
             /\ UNCHANGED hashBlob
    /\ UNCHANGED <<geojsonBlob, regionsBlob, drive, prev, calc, kml, dig, qry>>

\* The failed write is logged and the run goes on to commit the hash.
SaveGeojson_swallow(r) ==
    /\ run[r].pc = "save_geojson"
    /\ LET rec == Issue(run[r], "geojson_write")
           new_zones_geojson == [type |-> "FeatureCollection",
                                 features |-> run[r].new_zones_features]
       IN \/ /\ geojsonBlob' = Some(new_zones_geojson)
             /\ Upd(r, [Wrote(rec, "geojson") EXCEPT !.pc = "update_hash"])
          \/ /\ Upd(r, [Raise(rec, "geojson_write") EXCEPT !.pc = "update_hash"])
             /\ UNCHANGED geojsonBlob
    /\ UNCHANGED <<hashBlob, regionsBlob, drive, prev, calc, kml, dig, qry>>

\* Lines 404-417 (and the except clause 424-426): write the primary artifact.
SaveGeojson(r) ==
    /\ run[r].pc = "save_geojson"
    /\ LET rec == Issue(run[r], "geojson_write")
           new_zones_geojson == [type |-> "FeatureCollection",
                                 features |-> run[r].new_zones_features]
       IN \/ /\ geojsonBlob' = Some(new_zones_geojson)
             /\ Upd(r, [Wrote(rec, "geojson") EXCEPT !.pc = "update_hash"])
          \/ /\ Upd(r, Done(Raise(rec, "geojson_write"),
                            Resp("Failed to save GeoJSON results.", "", 500)))
             /\ UNCHANGED geojsonBlob
    /\ UNCHANGED <<hashBlob, regionsBlob, drive, prev, calc, kml, dig, qry>>

\* The hash object is created if absent and never overwritten.
UpdateHash_createonly(r) ==
    /\ run[r].pc = "update_hash"
    /\ LET rec == Issue(run[r], "hash_write")
       IN \/ /\ hashBlob' = IF hashBlob = None THEN run[r].current_hash ELSE hashBlob
             /\ Upd(r, [Wrote(rec, "hash") EXCEPT !.path = "changed",
                                                  !.pc = "sync_download"])
          \/ /\ Upd(r, Done(Raise(rec, "hash_write"),
                            Resp("Failed to save GeoJSON results.", "", 500)))
             /\ UNCHANGED hashBlob
    /\ UNCHANGED <<geojsonBlob, regionsBlob, drive, prev, calc, kml, dig, qry>>

\* Lines 419-426: commit the hash.
UpdateHash(r) ==
    /\ run[r].pc = "update_hash"
    /\ LET rec == Issue(run[r], "hash_write")
       IN \/ /\ hashBlob' = run[r].current_hash
             /\ Upd(r, [Wrote(rec, "hash") EXCEPT !.path = "changed",
                                                  !.pc = "sync_download"])
          \/ /\ Upd(r, Done(Raise(rec, "hash_write"),
                            Resp("Failed to save GeoJSON results.", "", 500)))
             /\ UNCHANGED hashBlob
    /\ UNCHANGED <<geojsonBlob, regionsBlob, drive, prev, calc, kml, dig, qry>>

\* Every failure of the sync answers as on the unchanged path, with 500.
SyncExcept_500(rec, e) ==
    Done(rec, Resp("No data changes. KML Drive sync failed: ", e, 500))

\* The except clauses around the two calls of sync_to_drive_internal:
\* lines 383-384 on the unchanged path, 434-437 on the changed path.
SyncExcept(rec, e) ==
    IF rec.path = "skip"
    THEN Done(rec, Resp("No data changes. KML Drive sync failed: ", e, 500))
    ELSE Done(rec, Resp("Analysis complete. GeoJSON saved. KML sync failed: ", e, 200))

\* sync_to_drive_internal, lines 324-333: read the primary artifact back and
\* convert it.
SyncDownload(r) ==
    /\ run[r].pc = "sync_download"
    /\ LET rec == Issue(run[r], "geojson_read")
       IN \/ \* the blob is missing or the download raised
             Upd(r, SyncExcept(Raise(rec, "geojson_read"), "gcs"))
          \/ /\ geojsonBlob # None
             /\ Upd(r, [rec EXCEPT
                          !.feature_count = Len(geojsonBlob[1].features),
                          !.kml_content = geojson_to_kml(geojsonBlob[1]),
                          !.pc = "upload_list"])
    /\ UNCHANGED <<hashBlob, geojsonBlob, regionsBlob, drive, prev, calc, kml, dig, qry>>

\* upload_to_drive, lines 239-277: credentials, service and the query for
\* non-trashed files of that name in the folder.
\* The query without "trashed=false".
Listed_any(f) == f.name = KML_FILENAME
Listed(f) == f.name = KML_FILENAME /\ ~f.trashed
UploadList(r) ==
    /\ run[r].pc = "upload_list"
    /\ LET rec == Issue(run[r], "drive_list")
           found == SelectSeq(drive, Listed)
       IN \/ Upd(r, SyncExcept(Raise(rec, "drive_list"), "drive"))
          \/ Upd(r, [rec EXCEPT
                       !.existing_files = [i \in DOMAIN found |-> found[i].id],
                       !.pc = "upload_write"])
    /\ UNCHANGED <<hashBlob, geojsonBlob, regionsBlob, drive, prev, calc, kml, dig, qry>>

\* The update branch rewrites every listed file, not only the first.
UploadWrite_all(r) ==
    /\ run[r].pc = "upload_write"
    /\ IF run[r].existing_files # <<>>
       THEN LET file_id == run[r].existing_files[1]
                listed == {run[r].existing_files[k] : k \in DOMAIN run[r].existing_files}
                rec == Issue(run[r], "drive_update")
            IN \/ /\ drive' = [i \in DOMAIN drive |->
                                 IF drive[i].id \in listed
                                 THEN [drive[i] EXCEPT !.content = run[r].kml_content]
                                 ELSE drive[i]]
                  /\ Upd(r, [Wrote(rec, "drive") EXCEPT !.file = Some(file_id),
                                        !.action = "updated",
                                        !.pc = "upload_grant"])
               \/ /\ Upd(r, SyncExcept(Raise(rec, "drive_update"), "drive"))
                  /\ UNCHANGED drive
       ELSE LET file_id == Len(drive) + 1
                rec == Issue(run[r], "drive_create")
            IN \/ /\ drive' = Append(drive, [id |-> file_id, name |-> KML_FILENAME,
                                             content |-> run[r].kml_content,
                                             trashed |-> FALSE, public |-> FALSE])
                  /\ Upd(r, [Wrote(rec, "drive") EXCEPT !.file = Some(file_id),
                                        !.action = "created",
                                        !.pc = "upload_grant"])
               \/ /\ Upd(r, SyncExcept(Raise(rec, "drive_create"), "drive"))
                  /\ UNCHANGED drive
    /\ UNCHANGED <<hashBlob, geojsonBlob, regionsBlob, prev, calc, kml, dig, qry>>

\* upload_to_drive, lines 279-294: update the first listed file or create one.
UploadWrite(r) ==
    /\ run[r].pc = "upload_write"
    /\ IF run[r].existing_files # <<>>
       THEN LET file_id == run[r].existing_files[1]
                rec == Issue(run[r], "drive_update")
            IN \/ /\ drive' = [i \in DOMAIN drive |->
                                 IF drive[i].id = file_id
                                 THEN [drive[i] EXCEPT !.content = run[r].kml_content]
                                 ELSE drive[i]]
                  /\ Upd(r, [Wrote(rec, "drive") EXCEPT !.file = Some(file_id),
                                        !.action = "updated",
                                        !.pc = "upload_grant"])
               \/ /\ Upd(r, SyncExcept(Raise(rec, "drive_update"), "drive"))
                  /\ UNCHANGED drive
       ELSE LET file_id == Len(drive) + 1
                rec == Issue(run[r], "drive_create")
            IN \/ /\ drive' = Append(drive, [id |-> file_id, name |-> KML_FILENAME,
                                             content |-> run[r].kml_content,
                                             trashed |-> FALSE, public |-> FALSE])
                  /\ Upd(r, [Wrote(rec, "drive") EXCEPT !.file = Some(file_id),
                                        !.action = "created",
                                        !.pc = "upload_grant"])
               \/ /\ Upd(r, SyncExcept(Raise(rec, "drive_create"), "drive"))
                  /\ UNCHANGED drive
    /\ UNCHANGED <<hashBlob, geojsonBlob, regionsBlob, prev, calc, kml, dig, qry>>

\* upload_to_drive, lines 296-314, and the return of sync_to_drive_internal
\* (340-349): grant read access, then hand the result dict to the caller.
UploadGrant(r) ==
    /\ run[r].pc = "upload_grant"
    /\ LET rec == Issue(run[r], "drive_permission")
           upload_result == [file_id |-> run[r].file[1], action |-> run[r].action]
           sync_result == [success |-> TRUE,
                           message |-> upload_result.action,
                           feature_count |-> run[r].feature_count,
                           drive_file_id |-> upload_result.file_id,
                           filename |-> KML_FILENAME]
       IN \/ /\ drive' = [i \in DOMAIN drive |->
                            IF drive[i].id = run[r].file[1]
                            THEN [drive[i] EXCEPT !.public = TRUE]
                            ELSE drive[i]]
             /\ Upd(r, [rec EXCEPT !.drive_result = Some(sync_result),
                                   !.pc = "sync_return"])
          \/ /\ Upd(r, SyncExcept(Raise(rec, "drive_permission"), "drive"))
             /\ UNCHANGED drive
    /\ UNCHANGED <<hashBlob, geojsonBlob, regionsBlob, prev, calc, kml, dig, qry>>

\* Lines 381-382 and 430-432: the caller reads drive_result['action'].
SyncReturn(r) ==
    /\ run[r].pc = "sync_return"
    /\ LET drive_result == run[r].drive_result[1]
       IN IF "action" \in DOMAIN drive_result
          THEN IF run[r].path = "skip"
               THEN Upd(r, Done(run[r], Resp("No data changes. KML Drive sync: ",
                                             drive_result["action"], 200)))
               ELSE Upd(r, Done(run[r],
                                Resp("Analysis complete. New GeoJSON saved. KML Drive sync: ",
                                     drive_result["action"], 200)))
          ELSE Upd(r, SyncExcept(Raise(run[r], "KeyError"), "'action'"))
    /\ UNCHANGED <<hashBlob, geojsonBlob, regionsBlob, drive, prev, calc, kml, dig, qry>>

\* The invocation has returned its response; the next one may start.
Return(r) ==
    /\ run[r].pc = "done"
    /\ Upd(r, IdleRun)
    /\ prev' = [content |-> IF run[r].wastewater_data = None THEN None
                            ELSE Some(Content(run[r].wastewater_data[1])),
                committed |-> run[r].current_hash # None
                              /\ hashBlob = run[r].current_hash,
                publish_failed |-> run[r].raised = "geojson_write",
                start_equal |-> run[r].current_hash # None
                                /\ run[r].start_hash = run[r].current_hash]
    /\ UNCHANGED <<hashBlob, geojsonBlob, regionsBlob, drive, calc, kml, dig, qry>>

Next ==
    \E r \in Runs :
        \/ Fetch(r)
        \/ FetchFail(r)
        \/ HashCheck(r)
        \/ LoadRegions(r)
        \/ Calculate(r)
        \/ CommitEmpty(r)
        \/ SaveGeojson(r)
        \/ UpdateHash(r)
        \/ SyncDownload(r)
        \/ UploadList(r)
        \/ UploadWrite(r)
        \/ UploadGrant(r)
        \/ SyncReturn(r)
        \/ Return(r)

Spec == Init /\ [][Next]_vars

TypeOK ==
    /\ \A r \in Runs : run[r].pc \in {"idle", "hash_check", "load_regions", "calculate",
                                      "commit_empty", "save_geojson", "update_hash",
                                      "sync_download", "upload_list", "upload_write",
                                      "upload_grant", "sync_return", "done"}
    /\ calc.pc = "off"
    /\ kml.pc = "off"
    /\ dig.pc = "off"
    /\ qry.pc = "off"

\* ------------------------------------------------------------------------
\* Overlapping invocations of check_for_changes
\* ------------------------------------------------------------------------
\* The scheduler does not wait for a running invocation: a new one may start
\* while one other is still in flight.  Every other step is the same code.
Mainland == <<RegionGeom({2, 3}, TRUE), RegionGeom({3, 4}, TRUE)>>

\* The upstream list holds one facility, which changes between fetches.
OverlapPayloads == {Payload("list", <<f>>, 0) : f \in PlantPool}

\* The region dataset is the mainland or holds no region at all.
InitOverlap ==
    /\ Init
    /\ regionsBlob \in {Mainland, <<>>}

InFlight == {q \in Runs : run[q].pc # "idle"}

MayStart(r) ==
    /\ run[r].pc = "idle"
    /\ \A q \in Runs : run[q].pc = "idle" => r <= q
    /\ \A q1, q2 \in InFlight : q1 = q2

\* Lines 363-368 of an invocation that may overlap another.
FetchOverlap(r) ==
    /\ MayStart(r)
    /\ \E p \in OverlapPayloads :
         Upd(r, [run[r] EXCEPT
                   !.pc = "hash_check",
                   !.wastewater_data = Some(p),
                   !.current_hash = Some(sha256(json_dumps_sorted(p)))])
    /\ prev' = NoPrev
    /\ UNCHANGED <<hashBlob, geojsonBlob, regionsBlob, drive, calc, kml, dig, qry>>

\* Lines 369-371 of an invocation that may overlap another.
FetchFailOverlap(r) ==
    /\ MayStart(r)
    /\ Upd(r, Done(Raise(run[r], "fetch"), Resp("Failed to fetch data.", "", 500)))
    /\ prev' = NoPrev
    /\ UNCHANGED <<hashBlob, geojsonBlob, regionsBlob, drive, calc, kml, dig, qry>>

\* The invocation has returned its response.
ReturnOverlap(r) ==
    /\ run[r].pc = "done"
    /\ Upd(r, IdleRun)
    /\ UNCHANGED <<hashBlob, geojsonBlob, regionsBlob, drive, prev, calc, kml, dig, qry>>

NextOverlap ==
    \E r \in Runs :
        \/ FetchOverlap(r)
        \/ FetchFailOverlap(r)
        \/ HashCheck(r)
        \/ LoadRegions(r)
        \/ Calculate(r)
        \/ CommitEmpty(r)
        \/ SaveGeojson(r)
        \/ UpdateHash(r)
        \/ SyncDownload(r)
        \/ UploadList(r)
        \/ UploadWrite(r)
        \/ UploadGrant(r)
        \/ SyncReturn(r)
        \/ ReturnOverlap(r)

SpecOverlap == InitOverlap /\ [][NextOverlap]_vars

\* ------------------------------------------------------------------------
\* calculate_new_zones, one facility at a time
\* ------------------------------------------------------------------------
WktValues == {None, <<"garbage">>, <<"POINT EMPTY">>, <<"POINT", 1>>}
LonLatValues == {<<None, None>>, <<Some(3), None>>, <<Some(3), Some(0)>>,
                 <<Some(0), Some(0)>>, <<<<0, 0>>, Some(0)>>}
ZoneFacilities ==
    {Facility("flat", Props("P", w, ll[1], ll[2], None)) :
        w \in WktValues, ll \in LonLatValues}
    \cup {Facility("nested", Props("N", None, Some(0), Some(0), Some(FALSE))),
          Facility("flat", Props("T", <<"POINT", 1>>, None, None, Some(TRUE))),
          Facility("flat", Props("U", <<"POINT", 1>>, None, None, Null)),
          Facility("flat", [Props("C", <<"POINT", 1>>, None, None, None)
                              EXCEPT !.compliance = Some(FALSE)]),
          Facility("bad", Props("X", <<"POINT", 1>>, Some(0), Some(0), None))}
ZonePayloads ==
    {Payload(k, fs, 0) : k \in {"list", "dict"},
                         fs \in SeqUpTo(ZoneFacilities, MaxFacilities)}
    \cup {Payload("other", <<>>, 0)}

InitZones ==
    /\ hashBlob = None
    /\ geojsonBlob = None
    /\ regionsBlob \in RegionDatasets
    /\ drive = <<>>
    /\ run = [r \in Runs |-> IdleRun]
    /\ prev = NoPrev
    /\ kml = KmlOff
    /\ dig = DigOff
    /\ qry = QryOff
    /\ \E d \in ZonePayloads :
         calc = [CalcOff EXCEPT !.pc = "start",
                                !.perifereies_geometries = regionsBlob,
                                !.wastewater_data = d]

Logged(res) == [outcome |-> res.outcome, source |-> res.source,
                features |-> res.features, steps |-> res.steps]

\* Lines 75-92: the guards before the loop.
CalcStart ==
    /\ calc.pc = "start"
    /\ IF calc.perifereies_geometries = <<>>
       THEN calc' = [calc EXCEPT !.pc = "done"]
       ELSE LET unified == cascaded_union(calc.perifereies_geometries)
            IN IF ~unified.ok
               THEN calc' = [calc EXCEPT !.pc = "raised"]
               ELSE IF calc.wastewater_data.kind \in {"dict", "list"}
               THEN calc' = [calc EXCEPT !.pc = "loop", !.i = 1,
                                         !.unified = unified.geom]
               ELSE calc' = [calc EXCEPT !.pc = "done"]
    /\ UNCHANGED <<hashBlob, geojsonBlob, regionsBlob, drive, run, prev, kml, dig, qry>>

\* The per-facility error escapes the loop.
PlantSkip_abort(c, res) ==
    [c EXCEPT !.pc = "raised", !.log = Append(@, Logged(res))]

\* `continue` at lines 126 and 157: the facility is skipped, the loop goes on.
PlantSkip(c, res) ==
    [c EXCEPT !.i = @ + 1, !.log = Append(@, Logged(res))]

\* The new feature is put in front of the ones collected so far.
PlantAppend_prepend(c, res) ==
    [c EXCEPT !.i = @ + 1, !.log = Append(@, Logged(res)),
              !.no_swim_zones_with_metadata = res.features \o @]

\* Lines 140-153 and the fall-through of an empty difference.
PlantAppend(c, res) ==
    [c EXCEPT !.i = @ + 1, !.log = Append(@, Logged(res)),
              !.no_swim_zones_with_metadata = @ \o res.features]

\* Lines 94-157: one iteration.
CalcPlant ==
    /\ calc.pc = "loop"
    /\ calc.i <= Len(calc.wastewater_data.features)
    /\ LET res == plant_feature_step(calc.wastewater_data.features[calc.i],
                                     calc.unified)
       IN IF res.outcome \in {"error", "missing"}
          THEN calc' = PlantSkip(calc, res)
          ELSE calc' = PlantAppend(calc, res)
    /\ UNCHANGED <<hashBlob, geojsonBlob, regionsBlob, drive, run, prev, kml, dig, qry>>

\* Lines 159-160.
CalcReturn ==
    /\ calc.pc = "loop"
    /\ calc.i > Len(calc.wastewater_data.features)
    /\ calc' = [calc EXCEPT !.pc = "done"]
    /\ UNCHANGED <<hashBlob, geojsonBlob, regionsBlob, drive, run, prev, kml, dig, qry>>

NextZones == CalcStart \/ CalcPlant \/ CalcReturn

SpecZones == InitZones /\ [][NextZones]_vars

\* ------------------------------------------------------------------------
\* geojson_to_kml, one feature at a time
\* ------------------------------------------------------------------------
\* The properties of a stored feature: the compliance key holds true, false
\* or null, or is not there at all; the location key may be missing too.
KmlProperties ==
    {[location |-> "A", Column1_compliance |-> c] :
        c \in {Some(TRUE), Some(FALSE), Null}}
    \cup {[location |-> "A"], [Column1_compliance |-> Some(FALSE)]}
KmlGeometries ==
    {mapping(Geom(WGS84_CRS, S)) : S \in (SUBSET (0..MaxCell)) \ {{}}}
    \cup {[type |-> "Point", coordinates |-> <<>>]}
    \cup {[type |-> "Polygon",
           coordinates |-> << << <<0, MaxCell>>, <<2, 2>> >> >>],
          [type |-> "MultiPolygon",
           coordinates |-> << << <<0, 0>> >>, << <<2, MaxCell>>, <<3, 3>> >> >>]}
KmlFeatures ==
    {[type |-> "Feature", geometry |-> g, properties |-> p] :
        g \in KmlGeometries, p \in KmlProperties}
KmlCollections ==
    {[type |-> "FeatureCollection", features |-> fs] :
        fs \in SeqUpTo(KmlFeatures, MaxPlants)}

InitKml ==
    /\ hashBlob = None
    /\ geojsonBlob = None
    /\ regionsBlob = <<>>
    /\ drive = <<>>
    /\ run = [r \in Runs |-> IdleRun]
    /\ prev = NoPrev
    /\ calc = CalcOff
    /\ dig = DigOff
    /\ qry = QryOff
    /\ \E d \in KmlCollections :
         kml = [KmlOff EXCEPT !.pc = "loop", !.geojson_data = d, !.i = 1]

\* Lines 178-231: one iteration of the loop over the features.
KmlFeature ==
    /\ kml.pc = "loop"
    /\ kml.i <= Len(kml.geojson_data.features)
    /\ LET shapes == feature_to_kml(kml.geojson_data.features[kml.i])
       IN kml' = [kml EXCEPT !.i = @ + 1,
                             !.placemarks = @ \o shapes,
                             !.log = Append(@, shapes)]
    /\ UNCHANGED <<hashBlob, geojsonBlob, regionsBlob, drive, run, prev, calc, dig, qry>>

\* Lines 233-235: the document is serialised and returned.
KmlReturn ==
    /\ kml.pc = "loop"
    /\ kml.i > Len(kml.geojson_data.features)
    /\ kml' = [kml EXCEPT !.pc = "done"]
    /\ UNCHANGED <<hashBlob, geojsonBlob, regionsBlob, drive, run, prev, calc, dig, qry>>

NextKml == KmlFeature \/ KmlReturn

SpecKml == InitKml /\ [][NextKml]_vars

\* ------------------------------------------------------------------------
\* The digest and the gate over two payloads fetched one after the other
\* ------------------------------------------------------------------------
DigestPayloads ==
    {Payload("list", fs, k) : fs \in SeqUpTo(PlantPool, MaxFacilities),
                              k \in KeyOrders}

InitDigest ==
    /\ hashBlob = None
    /\ geojsonBlob = None
    /\ regionsBlob = <<>>
    /\ drive = <<>>
    /\ run = [r \in Runs |-> IdleRun]
    /\ prev = NoPrev
    /\ calc = CalcOff
    /\ kml = KmlOff
    /\ qry = QryOff
    /\ \E p, q \in DigestPayloads :
         dig = [DigOff EXCEPT !.pc = "first", !.first = p, !.second = q]

\* Lines 366-368 and the hash write (401 or 421) of the first invocation.
DigFirst ==
    /\ dig.pc = "first"
    /\ dig' = [dig EXCEPT !.last_hash = Some(sha256(json_dumps_sorted(dig.first))),
                          !.pc = "second"]
    /\ UNCHANGED <<hashBlob, geojsonBlob, regionsBlob, drive, run, prev, calc, kml, qry>>

\* Lines 366-368 of the second invocation.
DigSecond ==
    /\ dig.pc = "second"
    /\ dig' = [dig EXCEPT !.current_hash = Some(sha256(json_dumps_sorted(dig.second))),
                          !.pc = "gate"]
    /\ UNCHANGED <<hashBlob, geojsonBlob, regionsBlob, drive, run, prev, calc, kml, qry>>

\* Lines 375-377 of the second invocation.
DigGate ==
    /\ dig.pc = "gate"
    /\ dig' = [dig EXCEPT !.gate = IF dig.current_hash = dig.last_hash
                                   THEN "equal" ELSE "differ",
                          !.pc = "done"]
    /\ UNCHANGED <<hashBlob, geojsonBlob, regionsBlob, drive, run, prev, calc, kml, qry>>

NextDigest == DigFirst \/ DigSecond \/ DigGate

SpecDigest == InitDigest /\ [][NextDigest]_vars

\* ------------------------------------------------------------------------
\* Containment query (spec 4.8; its code is not among the sources)
\* ------------------------------------------------------------------------
\* The test is made on the open interior of the ring only.
contains_strict(geometry, coordinate) ==
    \E k \in DOMAIN geometry.coordinates :
        LET rings == geometry.coordinates[k]
        IN /\ rings[1][1] < coordinate /\ coordinate < rings[1][2]
           /\ \A h \in 2..Len(rings) :
                 ~(rings[h][1] <= coordinate /\ coordinate <= rings[h][2])

\* Point-in-polygon membership, boundary included: the coordinate lies on
\* or inside the outer ring of some polygon of the geometry and in none of
\* its holes.
contains(geometry, coordinate) ==
    \E k \in DOMAIN geometry.coordinates :
        LET rings == geometry.coordinates[k]
        IN /\ rings[1][1] <= coordinate /\ coordinate <= rings[1][2]
           /\ \A h \in 2..Len(rings) :
                 ~(rings[h][1] <= coordinate /\ coordinate <= rings[h][2])

QueryGeometries ==
    {mapping(Geom(WGS84_CRS, S)) : S \in {{0, 1, 2}, {1, 2, 3}, {0, 2, 3}}}
QueryFeatures ==
    {[type |-> "Feature", geometry |-> g,
      properties |-> [code |-> c, name |-> c, Column1_compliance |-> Some(TRUE)]] :
        g \in QueryGeometries, c \in {"A", "B"}}

InitQuery ==
    /\ hashBlob = None
    /\ geojsonBlob = None
    /\ regionsBlob = <<>>
    /\ drive = <<>>
    /\ run = [r \in Runs |-> IdleRun]
    /\ prev = NoPrev
    /\ calc = CalcOff
    /\ kml = KmlOff
    /\ dig = DigOff
    /\ \E fs \in SeqUpTo(QueryFeatures, MaxFacilities + 1), c \in (0 - 1)..(MaxCell + 1) :
         qry = [QryOff EXCEPT !.pc = "scan", !.collection = fs,
                              !.coordinate = c, !.i = 1]

\* One step of the linear scan: the feature under the cursor matches and is
\* returned, or the cursor moves on.
QueryScan ==
    /\ qry.pc = "scan"
    /\ qry.i <= Len(qry.collection)
    /\ LET feature == qry.collection[qry.i]
       IN IF contains(feature.geometry, qry.coordinate)
          THEN qry' = [qry EXCEPT !.pc = "done",
                                  !.result = Some([in_no_swim_zone |-> TRUE,
                                                   metadata |-> feature.properties])]
          ELSE qry' = [qry EXCEPT !.i = @ + 1]
    /\ UNCHANGED <<hashBlob, geojsonBlob, regionsBlob, drive, run, prev, calc, kml, dig>>

\* The scan ran off the end of the collection: no zone holds the coordinate.
QueryMiss ==
    /\ qry.pc = "scan"
    /\ qry.i > Len(qry.collection)
    /\ qry' = [qry EXCEPT !.pc = "done", !.result = None]
    /\ UNCHANGED <<hashBlob, geojsonBlob, regionsBlob, drive, run, prev, calc, kml, dig>>

NextQuery == QueryScan \/ QueryMiss

SpecQuery == InitQuery /\ [][NextQuery]_vars

\* ------------------------------------------------------------------------
\* Properties
\* ------------------------------------------------------------------------
RecomputeOps == {"regions_read", "calculate", "geojson_write", "hash_write"}
SaveFailed == Resp("Failed to save GeoJSON results.", "", 500)
RegionsFailed == Resp("Failed to load perifereies data.", "", 500)
FetchFailed == Resp("Failed to fetch data.", "", 500)
NoZonesSaved == Resp("Analysis complete. No zones saved.", "", 200)
EmptyCollection == [type |-> "FeatureCollection", features |-> <<>>]

\* C1: in every run the stored hash is overwritten only after the primary
\* artifact has been written successfully earlier in that run.
C1_HashOnlyAfterPrimaryWrite ==
    \A r \in Runs : "hash" \in run[r].wrote => "geojson" \in run[r].wrote

\* C2 as stated: a run whose primary write fails leaves the hash unchanged
\* and reports the publish failure, and the next run on the same payload
\* does not take the SKIP branch.
C2_Original ==
    \A r \in Runs :
        /\ run[r].raised = "geojson_write"
             => /\ hashBlob = run[r].start_hash
                /\ "hash" \notin run[r].wrote
                /\ run[r].pc = "done" /\ run[r].response = SaveFailed
        /\ (run[r].after.same /\ run[r].after.publish_failed)
             => run[r].gate # "equal"

\* C2 amended: the same, where the next run is required to recompute only
\* if the stored hash did not already equal the payload's digest when the
\* failing run started.
C2_PublishFailureKeepsHash ==
    \A r \in Runs :
        /\ run[r].raised = "geojson_write"
             => /\ hashBlob = run[r].start_hash
                /\ "hash" \notin run[r].wrote
                /\ run[r].pc = "done" /\ run[r].response = SaveFailed
        /\ (run[r].after.same /\ run[r].after.publish_failed
                /\ ~run[r].after.start_equal)
             => /\ run[r].gate # "equal"
                /\ run[r].path # "skip"
                /\ run[r].gate # "" => \/ run[r].pc = "load_regions"
                                       \/ "regions_read" \in run[r].ops

C2_Witness ==
    \E r \in Runs :
        /\ run[r].after.same /\ run[r].after.publish_failed
        /\ ~run[r].after.start_equal
        /\ run[r].gate = "differ"
        /\ "calculate" \in run[r].ops

\* C3 as stated: the second of two consecutive runs with the same payload
\* content never loads regions, recomputes or writes artifact or hash.
C3_Original ==
    \A r \in Runs :
        run[r].after.same => run[r].ops \cap RecomputeOps = {}

\* C3 amended: the second of two consecutive runs with the same payload
\* content does none of that when the first run left that payload's digest
\* stored and the second run reads the stored hash without error.
C3_UnchangedPayloadSkips ==
    \A r \in Runs :
        (run[r].after.same /\ run[r].after.committed /\ run[r].gate # "error")
          => /\ run[r].ops \cap RecomputeOps = {}
             /\ run[r].wrote \cap {"geojson", "hash"} = {}
             /\ run[r].gate # "" => run[r].gate = "equal" /\ run[r].path = "skip"

C3_Witness ==
    \E r \in Runs :
        /\ run[r].after.same /\ run[r].after.committed
        /\ run[r].gate = "equal"
        /\ run[r].pc = "done"
        /\ run[r].wastewater_data[1].key_order = 1
        /\ geojsonBlob # None

\* C4: a changed payload that yields no Zone Feature leaves the empty
\* collection as the primary artifact and its digest as the stored hash.
C4_EmptyResultPublished ==
    \A r \in Runs :
        (run[r].pc = "done" /\ run[r].response = NoZonesSaved)
          => /\ geojsonBlob = Some(EmptyCollection)
             /\ hashBlob = run[r].current_hash

\* C5: upload_to_drive creates exactly when no non-trashed file of that name
\* exists and updates otherwise, and non-overlapping calls never leave more
\* than one such file: exactly one after every call that wrote.
NonTrashed(files) ==
    {i \in DOMAIN files : files[i].name = KML_FILENAME /\ ~files[i].trashed}
C5_UpsertByKey ==
    /\ [](/\ Cardinality(NonTrashed(drive)) <= 1
          /\ \A r \in Runs :
                run[r].action # "" => Cardinality(NonTrashed(drive)) = 1)
    /\ [][\A r \in Runs :
            (run[r].pc = "upload_write" /\ run'[r].action # "")
              => /\ run'[r].action = "created" <=> NonTrashed(drive) = {}
                 /\ run'[r].action = "updated" <=> NonTrashed(drive) # {}
                 /\ Cardinality(NonTrashed(drive')) = 1]_vars

C5_Witness ==
    \E r \in Runs :
        /\ run[r].action = "updated"
        /\ Len(drive) = 2
        /\ drive[1].trashed
        /\ drive[2].content = run[r].kml_content

\* C6: with the region dataset unavailable, unparseable or without any
\* geometry the run ends with the reference-data failure and writes neither
\* the primary artifact nor the hash.
C6_NoRegionsFailsRun ==
    \A r \in Runs :
        (/\ run[r].pc = "done"
         /\ \/ run[r].raised = "regions_read"
            \/ ("calculate" \in run[r].ops /\ run[r].perifereies_geometries = <<>>))
          => /\ run[r].response = RegionsFailed
             /\ run[r].wrote \cap {"geojson", "hash"} = {}

\* C7: a failed fetch ends the run with the fetch-failure response, issues
\* no read or write to any store and leaves hash, primary and secondary
\* artifact as they were.
C7_FetchFailureTouchesNothing ==
    /\ [](\A r \in Runs :
            run[r].raised = "fetch"
              => /\ run[r].pc = "done"
                 /\ run[r].response = FetchFailed
                 /\ run[r].ops = {} /\ run[r].wrote = {})
    /\ [][\A r \in Runs :
            (run[r].pc = "idle" /\ run'[r].raised = "fetch")
              => UNCHANGED <<hashBlob, geojsonBlob, drive>>]_vars

C7_Witness ==
    \E r \in Runs :
        /\ run[r].raised = "fetch"
        /\ hashBlob # None /\ geojsonBlob # None /\ NonTrashed(drive) # {}

\* What a facility record offers, read off the record itself.
WktParsed(f) ==
    /\ Len(f.props.receiverLocation) > 0
    /\ f.props.receiverLocation[1] \in {"POINT", "POINT EMPTY"}
WktPoint(f) ==
    /\ Len(f.props.receiverLocation) = 2
    /\ f.props.receiverLocation[1] = "POINT"
LonLatPresent(f) == f.props.longitude # None /\ f.props.latitude # None
LonLatPoint(f) == IsNumber(f.props.longitude) /\ IsNumber(f.props.latitude)

\* The cells of the point the loop resolves for a record: the parsed WKT
\* when it parses, else the longitude/latitude pair.
ResolvedCells(f) ==
    IF f.kind = "bad" THEN {}
    ELSE IF WktParsed(f)
    THEN (IF WktPoint(f) THEN {f.props.receiverLocation[2]} ELSE {})
    ELSE IF LonLatPoint(f) THEN {f.props.longitude[1]} ELSE {}

\* The cells within BUFFER_DISTANCE_METERS of cell c.
RawBufferCells(c) ==
    {x \in (0 - 1)..(MaxCell + 1) :
        /\ (x - c) * CellMeters <= BUFFER_DISTANCE_METERS
        /\ (c - x) * CellMeters <= BUFFER_DISTANCE_METERS}

Land(geometries) == UNION {geometries[i].pts : i \in DOMAIN geometries}

Failing(f, unified) ==
    plant_feature_step(f, unified).outcome \in {"error", "missing"}

RECURSIVE Survivors(_, _)
Survivors(fs, unified) ==
    IF fs = <<>> THEN <<>>
    ELSE (IF Failing(Head(fs), unified) THEN <<>> ELSE <<Head(fs)>>)
         \o Survivors(Tail(fs), unified)

\* C8: a facility whose processing fails is skipped alone: the call fails
\* for no facility, every facility is visited, and the features collected
\* are those of the same list without the failing records.
C8_FacilityFailuresIsolated ==
    /\ calc.pc = "raised" => ~cascaded_union(calc.perifereies_geometries).ok
    /\ (calc.pc \in {"loop", "done"} /\ calc.i >= 1)
         => LET visited == SubSeq(calc.wastewater_data.features, 1, calc.i - 1)
                kept == Survivors(visited, calc.unified)
            IN /\ Len(calc.log) = calc.i - 1
               /\ calc.pc = "done" => calc.i = Len(calc.wastewater_data.features) + 1
               /\ calc.no_swim_zones_with_metadata =
                    calculate_new_zones(calc.perifereies_geometries,
                                        Payload(calc.wastewater_data.kind, kept, 0)).features

C8_Witness ==
    /\ calc.pc = "done"
    /\ \E i, j \in DOMAIN calc.log :
          /\ i < j
          /\ calc.log[i].outcome = "error"
          /\ calc.log[j].outcome = "emitted"

\* C9: a parsable receiverLocation is used; otherwise longitude/latitude
\* are used when both are present; a facility is skipped for missing
\* coordinates only when neither source yields a point.
C9_PointResolution ==
    \A i \in DOMAIN calc.log :
        LET f == calc.wastewater_data.features[i]
        IN f.kind # "bad"
             => /\ WktParsed(f) => calc.log[i].source = "wkt"
                /\ (~WktParsed(f) /\ LonLatPresent(f)) => calc.log[i].source = "lonlat"
                /\ calc.log[i].outcome = "missing"
                     => ~WktPoint(f) /\ ~LonLatPresent(f)

\* C10: for a facility whose point resolves, a feature is emitted exactly
\* when the buffer minus the land is non-empty; its geometry is that
\* difference, which is the raw buffer when the buffer holds no land, and
\* a buffer wholly on land gives no feature.
C10_FeatureIffDifferenceNonEmpty ==
    \A i \in DOMAIN calc.log :
        LET f == calc.wastewater_data.features[i]
            cells == ResolvedCells(f)
            emitted == calc.log[i].features
        IN cells # {}
             => LET c == CHOOSE x \in cells : TRUE
                    buf == RawBufferCells(c)
                    land == Land(calc.perifereies_geometries)
                IN /\ Len(emitted) <= 1
                   /\ emitted # <<>> <=> (buf \ land) # {}
                   /\ buf \subseteq land => emitted = <<>>
                   /\ emitted # <<>>
                        => emitted[1].geometry = mapping(Geom(WGS84_CRS, buf \ land))
                   /\ buf \cap land = {}
                        => /\ emitted # <<>>
                           /\ emitted[1].geometry = mapping(Geom(WGS84_CRS, buf))

C10_Witness ==
    /\ calc.pc = "done"
    /\ \E i, j \in DOMAIN calc.log :
          LET land == Land(calc.perifereies_geometries)
              fi == calc.wastewater_data.features[i]
              fj == calc.wastewater_data.features[j]
          IN /\ ResolvedCells(fi) # {} /\ ResolvedCells(fj) # {}
             /\ land # {}
             /\ RawBufferCells(CHOOSE x \in ResolvedCells(fi) : TRUE) \cap land = {}
             /\ calc.log[i].outcome = "emitted"
             /\ RawBufferCells(CHOOSE x \in ResolvedCells(fj) : TRUE) \subseteq land
             /\ calc.log[j].outcome = "empty"

SyncFailedSkip == "No data changes. KML Drive sync failed: "
SyncFailedChanged == "Analysis complete. GeoJSON saved. KML sync failed: "
SyncedSkip == "No data changes. KML Drive sync: "
SyncedChanged == "Analysis complete. New GeoJSON saved. KML Drive sync: "
Collection(features) == [type |-> "FeatureCollection", features |-> features]

\* C11: when the permission step fails after the file was created or
\* updated, upload_to_drive still hands back its created/updated result, the
\* run's response does not report the sync as failed, and the uploaded file
\* keeps the uploaded content.
C11_GrantFailureNotUploadFailure ==
    \A r \in Runs :
        run[r].raised = "drive_permission"
          => /\ run[r].drive_result # None
             /\ run[r].response.msg \notin {SyncFailedSkip, SyncFailedChanged}
             /\ \E i \in DOMAIN drive :
                   /\ drive[i].id = run[r].file[1]
                   /\ drive[i].content = run[r].kml_content

\* C12: once a changed-data run has written the primary artifact and the
\* hash, nothing in its secondary leg touches either of them, and whatever
\* fails in that leg the run answers with status 200 and the message that
\* the GeoJSON was saved.
C12_SecondaryFailureIsolated ==
    /\ [](\A r \in Runs :
            run[r].path = "changed"
              => /\ {"geojson", "hash"} \subseteq run[r].wrote
                 /\ geojsonBlob = Some(Collection(run[r].new_zones_features))
                 /\ hashBlob = run[r].current_hash
                 /\ run[r].pc = "done"
                      => /\ run[r].response.status = 200
                         /\ run[r].raised # ""
                              => run[r].response.msg = SyncFailedChanged)
    /\ [][\A r \in Runs :
            run[r].path = "changed" => UNCHANGED <<hashBlob, geojsonBlob>>]_vars

C12_Witness ==
    \E r \in Runs :
        /\ run[r].path = "changed"
        /\ run[r].pc = "done"
        /\ run[r].raised = "drive_create"
        /\ run[r].response = Resp(SyncFailedChanged, "drive", 200)
        /\ NonTrashed(drive) = {}

\* C13: a run that finds the stored hash equal to the payload's digest
\* takes the sync path: it reads the stored primary artifact and never
\* loads regions, recomputes or writes artifact or hash; and when every
\* store and Drive call of that run succeeds, the folder ends with exactly
\* one non-trashed KML, publicly readable, whose content is the conversion
\* of the stored primary artifact.
SyncPcs == {"sync_download", "upload_list", "upload_write", "upload_grant",
            "sync_return", "done"}
C13_SkipRepublishes ==
    \A r \in Runs :
        /\ run[r].gate = "equal" => run[r].path = "skip"
        /\ run[r].path = "skip"
             => /\ run[r].pc \in SyncPcs
                /\ run[r].ops \cap RecomputeOps = {}
                /\ run[r].wrote \cap {"geojson", "hash"} = {}
                /\ run[r].pc # "sync_download" => "geojson_read" \in run[r].ops
                /\ (run[r].pc = "done" /\ run[r].raised \in {"", "KeyError"})
                     => /\ geojsonBlob # None
                        /\ Cardinality(NonTrashed(drive)) = 1
                        /\ \A i \in NonTrashed(drive) :
                              /\ drive[i].content = geojson_to_kml(geojsonBlob[1])
                              /\ drive[i].public

C13_Witness ==
    \E r \in Runs :
        /\ run[r].path = "skip"
        /\ run[r].pc = "done"
        /\ run[r].action = "created"
        /\ geojsonBlob # None
        /\ geojsonBlob[1].features # <<>>
        /\ \E i \in NonTrashed(drive) :
              drive[i].content = geojson_to_kml(geojsonBlob[1])

\* The outcome of a finished run, read off what happened in it.
OutcomeOf(rec) ==
    IF rec.raised = "fetch" THEN "upstream-fetch failure"
    ELSE IF rec.path = "skip" THEN "success with no change"
    ELSE IF \/ rec.raised = "regions_read"
            \/ ("calculate" \in rec.ops /\ rec.perifereies_geometries = <<>>)
    THEN "reference-data-load failure"
    ELSE IF rec.raised \in {"geojson_write", "hash_write"} THEN "publish failure"
    ELSE IF rec.path = "changed" THEN "success with data change"
    ELSE "success with empty result set"

\* The outcome each (message, status) pair is returned for in the code.
OutcomeOfResponse(response) ==
    IF response.msg = "Failed to fetch data." /\ response.status = 500
    THEN "upstream-fetch failure"
    ELSE IF response.msg = "Failed to load perifereies data." /\ response.status = 500
    THEN "reference-data-load failure"
    ELSE IF response.msg = "Failed to save GeoJSON results." /\ response.status = 500
    THEN "publish failure"
    ELSE IF response.msg = "Analysis complete. No zones saved." /\ response.status = 200
    THEN "success with empty result set"
    ELSE IF \/ response.msg = SyncedSkip /\ response.status = 200
            \/ response.msg = SyncFailedSkip /\ response.status = 500
    THEN "success with no change"
    ELSE IF response.msg \in {SyncedChanged, SyncFailedChanged} /\ response.status = 200
    THEN "success with data change"
    ELSE "none"

\* C14: the (message, status) a run returns determines which of the six
\* outcomes the run had: no response is returned for two different
\* outcomes.
C14_OutcomesDistinguishable ==
    \A r \in Runs :
        (run[r].pc = "done" /\ run[r].response # Unhandled)
          => OutcomeOfResponse(run[r].response) = OutcomeOf(run[r])

\* C15: whatever collaborator operation fails in a run, the run ends with
\* one of the responses check_for_changes returns, never with an exception
\* leaving the function.
C15_FailuresSurfaced ==
    \A r \in Runs :
        run[r].pc = "done"
          => /\ run[r].response # Unhandled
             /\ OutcomeOfResponse(run[r].response) # "none"

\* C16: the style of a shape follows the three-valued compliance of its
\* feature: true gives the normal style, false the warning style, and a
\* missing or null compliance a third style that is neither, with a text
\* that does not say compliant.
C16_ComplianceTriState ==
    \A i \in DOMAIN kml.log :
        LET properties == kml.geojson_data.features[i].properties
            compliance == PropGet(properties, "Column1_compliance", None)
        IN \A j \in DOMAIN kml.log[i] :
              LET shape == kml.log[i][j]
              IN /\ compliance = Some(TRUE)
                      => shape.color = "blue_alpha150" /\ shape.compliance_text = "Compliant"
                 /\ compliance = Some(FALSE)
                      => shape.color = "red" /\ shape.compliance_text = "NON-COMPLIANT"
                 /\ compliance \notin {Some(TRUE), Some(FALSE)}
                      => /\ shape.color \notin {"blue_alpha150", "red"}
                         /\ shape.compliance_text # "Compliant"

\* The boolean a facility record supplies under is_compliant or compliance.
Booleans == {Some(TRUE), Some(FALSE)}
SuppliedCompliance(f) ==
    IF f.props.is_compliant \in Booleans THEN f.props.is_compliant
    ELSE IF f.props.compliance \in Booleans THEN f.props.compliance
    ELSE None

\* C17: the compliance carried by an emitted Zone Feature is the boolean
\* the facility supplies under is_compliant or compliance, and is no
\* boolean at all when the facility supplies none.
C17_ComplianceCarried ==
    \A i \in DOMAIN calc.log :
        calc.log[i].outcome = "emitted"
          => LET f == calc.wastewater_data.features[i]
                 carried == calc.log[i].features[1].properties.Column1_compliance
             IN IF SuppliedCompliance(f) # None
                THEN carried = SuppliedCompliance(f)
                ELSE carried \notin Booleans

RECURSIVE Flatten(_)
Flatten(seqs) ==
    IF seqs = <<>> THEN <<>> ELSE Head(seqs) \o Flatten(Tail(seqs))

SameRecords(a, b) ==
    /\ Len(a) = Len(b)
    /\ \A x \in {a[i] : i \in DOMAIN a} :
          Cardinality({i \in DOMAIN a : a[i] = x})
            = Cardinality({i \in DOMAIN b : b[i] = x})

\* C19 as stated: two payloads with the same records, whatever the order
\* of the keys in a record and of the records in the list, get the same
\* digest, and the second is gated as unchanged.
C19_Original ==
    (/\ dig.pc = "done"
     /\ dig.first.kind = dig.second.kind
     /\ SameRecords(dig.first.features, dig.second.features))
      => dig.current_hash = dig.last_hash /\ dig.gate = "equal"

\* C19 amended: two payloads with the same records in the same order,
\* whatever the order of the keys in a record, get the same digest, and the
\* second is gated as unchanged.
C19_KeyOrderCanonical ==
    (/\ dig.pc = "done"
     /\ Content(dig.first) = Content(dig.second))
      => dig.current_hash = dig.last_hash /\ dig.gate = "equal"

C19_Witness ==
    /\ dig.pc = "done"
    /\ dig.first.key_order # dig.second.key_order
    /\ dig.first.features = dig.second.features
    /\ Len(dig.first.features) = 2
    /\ dig.first.features[1] # dig.first.features[2]
    /\ dig.gate = "equal"

\* C20: with a region dataset of zero geometries no run emits a Zone
\* Feature and none is published: no run holds a feature or writes the
\* primary artifact, and neither the primary artifact nor any Drive file
\* carries a shape; so no raw buffer ever appears as a zone.
C20_NoRawBufferWithoutRegions ==
    regionsBlob = <<>>
      => /\ geojsonBlob = None
         /\ \A i \in DOMAIN drive : drive[i].content = <<>>
         /\ \A r \in Runs :
               /\ run[r].new_zones_features = <<>>
               /\ run[r].kml_content = <<>>
               /\ "geojson" \notin run[r].wrote

C20_Witness ==
    \E r \in Runs :
        /\ regionsBlob = <<>>
        /\ run[r].pc = "done"
        /\ "calculate" \in run[r].ops
        /\ run[r].perifereies_geometries = <<>>
        /\ run[r].wastewater_data[1].features # <<>>
        /\ run[r].response = NoZonesSaved

\* C21: overlapping runs are not serialized.  Every write of the primary
\* artifact or of the hash stores the writing run's own value over whatever
\* the other run has stored meanwhile; the witness is the interleaving
\* after which the hash is one run's digest and the artifact the other's.
C21_WritesNotSerialized ==
    [][\A r \in Runs :
         /\ (run[r].pc = "save_geojson" /\ "geojson" \in run'[r].wrote)
              => geojsonBlob' = Some(Collection(run[r].new_zones_features))
         /\ (run[r].pc \in {"update_hash", "commit_empty"} /\ "hash" \in run'[r].wrote)
              => hashBlob' = run[r].current_hash]_vars

C21_Witness ==
    \E a, b \in Runs :
        /\ a # b
        /\ {"geojson", "hash"} \subseteq run[a].wrote
        /\ {"geojson", "hash"} \subseteq run[b].wrote
        /\ Content(run[a].wastewater_data[1]) # Content(run[b].wastewater_data[1])
        /\ hashBlob = run[a].current_hash
        /\ geojsonBlob = Some(Collection(run[b].new_zones_features))
        /\ run[a].new_zones_features # run[b].new_zones_features

\* C29: upload_to_drive decides between create and update on its own
\* listing alone: a call whose listing was empty creates a file even when
\* another call has created one since, and a call whose listing was not
\* empty rewrites the first listed file and leaves every other file as it
\* is; no step ever removes a file.  The witness is an update made while
\* two non-trashed files of the name exist, the second keeping other content.
C29_UpsertNotAtomic ==
    [][/\ Len(drive') >= Len(drive)
       /\ \A i \in DOMAIN drive : drive'[i].id = drive[i].id
       /\ \A r \in Runs :
            (run[r].pc = "upload_write" /\ run'[r].action # "")
              => IF run[r].existing_files = <<>>
                 THEN /\ run'[r].action = "created"
                      /\ Len(drive') = Len(drive) + 1
                      /\ \A i \in DOMAIN drive : drive'[i] = drive[i]
                      /\ drive'[Len(drive')].content = run[r].kml_content
                      /\ ~drive'[Len(drive')].trashed
                 ELSE /\ run'[r].action = "updated"
                      /\ Len(drive') = Len(drive)
                      /\ \A i \in DOMAIN drive :
                            drive'[i] = IF drive[i].id = run[r].existing_files[1]
                                        THEN [drive[i] EXCEPT !.content = run[r].kml_content]
                                        ELSE drive[i]]_vars

C29_Witness ==
    \E r \in Runs :
        /\ run[r].pc = "upload_grant"
        /\ run[r].action = "updated"
        /\ Cardinality(NonTrashed(drive)) = 2
        /\ \E i, j \in NonTrashed(drive) :
              /\ i < j
              /\ run[r].file = Some(drive[i].id)
              /\ drive[i].content = run[r].kml_content
              /\ drive[j].content # run[r].kml_content

\* C22: for every facility whose point resolves, the operations applied
\* are, in this order, resolve, projection to the metric system, buffer,
\* projection back to the geographic system, difference; the point is
\* geographic, the buffer is applied to a metric geometry, and the
\* difference is applied to a geographic geometry against a geographic mask.
C22_NoMixedCoordinateSystems ==
    \A i \in DOMAIN calc.log :
        calc.log[i].outcome \in {"emitted", "empty"}
          => /\ calc.log[i].steps =
                  <<Step("resolve", calc.log[i].source, WGS84_CRS),
                    Step("toMetric", WGS84_CRS, GREEK_GRID_CRS),
                    Step("buffer", GREEK_GRID_CRS, GREEK_GRID_CRS),
                    Step("toGeographic", GREEK_GRID_CRS, WGS84_CRS),
                    Step("difference", WGS84_CRS, WGS84_CRS)>>
             /\ calc.unified.crs = WGS84_CRS

C22_Witness ==
    /\ calc.pc = "done"
    /\ \E i, j \in DOMAIN calc.log :
          /\ calc.log[i].outcome = "emitted" /\ calc.log[i].source = "wkt"
          /\ calc.log[j].outcome = "emitted" /\ calc.log[j].source = "lonlat"
          /\ Len(calc.log[i].steps) = 5

\* The cells a GeoJSON geometry covers: the outer ring of each polygon less
\* its interior rings.
RingCells(ring) == ring[1]..ring[2]
PolygonCells(rings) ==
    RingCells(rings[1]) \ UNION {RingCells(rings[k]) : k \in 2..Len(rings)}
CellsOf(geometry) ==
    UNION {PolygonCells(geometry.coordinates[k]) : k \in DOMAIN geometry.coordinates}

\* C23: every Zone Feature collected by calculate_new_zones has a geometry
\* that covers something and nothing of any region geometry of that run.
C23_ZonesOffLand ==
    \A k \in DOMAIN calc.no_swim_zones_with_metadata :
        LET geometry == calc.no_swim_zones_with_metadata[k].geometry
        IN /\ geometry.type \in {"Polygon", "MultiPolygon"}
           /\ CellsOf(geometry) # {}
           /\ CellsOf(geometry) \cap Land(calc.perifereies_geometries) = {}

C23_Witness ==
    /\ calc.pc = "done"
    /\ Len(calc.no_swim_zones_with_metadata) = 2
    /\ \E i \in DOMAIN calc.log :
          LET cells == ResolvedCells(calc.wastewater_data.features[i])
          IN /\ calc.log[i].outcome = "emitted"
             /\ cells # {}
             /\ RawBufferCells(CHOOSE x \in cells : TRUE)
                  \cap Land(calc.perifereies_geometries) # {}

\* C24: the query answers with the metadata of the first feature of the
\* collection, in order, whose geometry covers the coordinate, its boundary
\* included, and with none when no feature covers it.
Covering(collection, coordinate) ==
    {k \in DOMAIN collection : coordinate \in CellsOf(collection[k].geometry)}
C24_FirstContainingFeature ==
    qry.pc = "done"
      => LET covering == Covering(qry.collection, qry.coordinate)
         IN IF covering = {}
            THEN qry.result = None
            ELSE LET first == CHOOSE k \in covering : \A m \in covering : k <= m
                 IN /\ qry.result # None
                    /\ qry.result[1].in_no_swim_zone
                    /\ qry.result[1].metadata = qry.collection[first].properties
                    /\ qry.i = first

C24_Witness ==
    /\ qry.pc = "done"
    /\ qry.result # None
    /\ qry.i = 2
    /\ \E k \in DOMAIN qry.collection :
          /\ k > qry.i
          /\ qry.coordinate \in CellsOf(qry.collection[k].geometry)
          /\ qry.collection[k].properties # qry.result[1].metadata
    /\ \E ring \in {qry.collection[qry.i].geometry.coordinates[m][1] :
                      m \in DOMAIN qry.collection[qry.i].geometry.coordinates} :
          qry.coordinate = ring[1] \/ qry.coordinate = ring[2]

\* C25: a run whose secondary synchronisation came back without raising
\* answers 200 with the success message of its path, naming the action the
\* upload took, and never with a "sync failed" message.
C25_SyncSuccessReported ==
    \A r \in Runs :
        (run[r].pc = "done" /\ run[r].drive_result # None)
          => /\ run[r].response.status = 200
             /\ run[r].response.msg
                  = (IF run[r].path = "skip" THEN SyncedSkip ELSE SyncedChanged)
             /\ run[r].response.detail = run[r].action
             /\ run[r].response.msg \notin {SyncFailedSkip, SyncFailedChanged}

\* C26: a step of the hash gate goes on to the full computation exactly
\* when the stored hash is absent, its read raised, or it differs from the
\* current digest; it takes the skip branch exactly when a stored hash
\* exists, was read without error and equals the current digest.
Skipped(r) == run'[r].path = "skip" /\ run'[r].pc = "sync_download"
Proceeded(r) == run'[r].path = "" /\ run'[r].pc = "load_regions"
C26_HashGate ==
    [][\A r \in Runs :
         (run[r].pc = "hash_check" /\ run'[r] # run[r])
           => LET read_raised == run'[r].raised = "hash_read"
                  absent == hashBlob = None
                  differs == hashBlob # None /\ hashBlob # run[r].current_hash
              IN /\ Skipped(r) \/ Proceeded(r)
                 /\ Proceeded(r) <=> (absent \/ read_raised \/ differs)
                 /\ Skipped(r) <=> (~absent /\ ~read_raised /\ ~differs)]_vars

\* A read that raised sent the run to the computation although the stored
\* hash equals the digest of the payload.
C26_Witness ==
    \E r \in Runs :
        /\ run[r].pc = "load_regions"
        /\ run[r].gate = "error"
        /\ hashBlob = run[r].current_hash

\* C27: with runs that never overlap, whenever no run is in progress and
\* the stored hash is the digest of a payload, the primary artifact exists
\* and is the zone collection derived from that payload, the empty
\* collection when the payload yields no zones.
C27_HashArtifactConsistent ==
    (\A r \in Runs : run[r].pc = "idle")
      => \A p \in RunPayloads :
            hashBlob = Some(sha256(json_dumps_sorted(p)))
              => geojsonBlob
                   = Some(Collection(calculate_new_zones(regionsBlob, p).features))

\* C28: the collected features match the facilities handled so far through
\* a strictly increasing assignment, each feature being the one feature its
\* facility yields: at most one per facility, in the order of the input
\* list; and the finished collection is the function's value on its inputs.
C28_OnePerFacilityInOrder ==
    LET zones == calc.no_swim_zones_with_metadata
        facilities == calc.wastewater_data.features
    IN /\ calc.pc \in {"loop", "done"} /\ zones # <<>>
          => \E f \in [DOMAIN zones -> 1..(calc.i - 1)] :
                /\ \A j, k \in DOMAIN zones : j < k => f[j] < f[k]
                /\ \A k \in DOMAIN zones :
                      plant_feature_step(facilities[f[k]], calc.unified).features
                        = <<zones[k]>>
       /\ calc.pc = "done"
          => zones = calculate_new_zones(calc.perifereies_geometries,
                                         calc.wastewater_data).features

C28_Witness ==
    /\ calc.pc = "done"
    /\ Len(calc.no_swim_zones_with_metadata) = 2
    /\ calc.no_swim_zones_with_metadata[1].properties.code = "T"
    /\ calc.no_swim_zones_with_metadata[2].properties.code = "P"
    /\ calc.no_swim_zones_with_metadata[1].geometry
         # calc.no_swim_zones_with_metadata[2].geometry

\* C30: every shape geojson_to_kml draws carries the first ring of its
\* polygon as outer boundary and no inner boundary, whatever further rings
\* the polygon has, and a feature whose geometry is neither a Polygon nor a
\* MultiPolygon draws no shape.
C30_OuterRingOnly ==
    \A j \in DOMAIN kml.log :
        LET geometry == kml.geojson_data.features[j].geometry
            shapes == kml.log[j]
        IN IF geometry.type = "Polygon"
           THEN /\ Len(shapes) = 1
                /\ shapes[1].outerboundaryis = geometry.coordinates[1][1]
                /\ shapes[1].innerboundaryis = <<>>
           ELSE IF geometry.type = "MultiPolygon"
           THEN /\ Len(shapes) = Len(geometry.coordinates)
                /\ \A i \in DOMAIN shapes :
                      /\ shapes[i].outerboundaryis = geometry.coordinates[i][1]
                      /\ shapes[i].innerboundaryis = <<>>
           ELSE shapes = <<>>

\* A two-part geometry whose second part has a hole has been converted.
C30_Witness ==
    /\ kml.pc = "done"
    /\ \E j \in DOMAIN kml.log :
          LET geometry == kml.geojson_data.features[j].geometry
          IN /\ geometry.type = "MultiPolygon"
             /\ Len(geometry.coordinates[2]) = 2
             /\ Len(kml.placemarks) = 2
             /\ kml.placemarks[2].outerboundaryis = <<2, MaxCell>>

=============================================================================
